---- MODULE Spec2Model ----
(***************************************************************************)
(* A model of the DQN recommendation agent                                 *)
(* (src/components/agents/dqn_agent.py).                                    *)
(*                                                                         *)
(* Floats are modelled on a fixed-point grid of step 1/Scale: the float x  *)
(* is the integer x * Scale.  Embeddings and user states are               *)
(* one-dimensional integers.  Network parameters are records [w, b]; the   *)
(* value network computes QValue(p, s, c) = p.w * c + p.b * s.             *)
(***************************************************************************)
EXTENDS Integers, Sequences, FiniteSets, TLC

VARIABLES
    \* --- configuration kept on the agent (set by __init__, never changed)
    gamma, batch_size, update_freq, loss_type, capacity,
    \* --- the constructor arguments eps_start, eps_min, eps_decay
    eps_start, eps_min, eps_decay,
    \* --- mutable agent state
    q_net, target_q_net, optimizer, buffer, step_count,
    epsilon, epsilon_min, epsilon_dec,
    \* --- the checkpoint file on disk
    checkpoint,
    \* --- the last call: its name, its arguments, its result, the locals
    \* --- of learn (the sampled batch and the bootstrap target), and the
    \* --- agent's attributes as they were when the call was made
    op, args, ret, batch, target, pre,
    \* --- the agent resumed from this agent's checkpoint, if there is one:
    \* --- the caller repeats on it every call it makes on this agent
    twin

config == <<gamma, batch_size, update_freq, loss_type, capacity,
            eps_start, eps_min, eps_decay>>
agent  == <<q_net, target_q_net, optimizer, buffer, step_count,
            epsilon, epsilon_min, epsilon_dec>>
call   == <<op, args, ret, batch, target, pre>>
vars   == <<config, agent, checkpoint, call, twin>>

\* The mutable attributes of the agent, by name.
Attributes ==
    [q_net        |-> q_net,
     target_q_net |-> target_q_net,
     optimizer    |-> optimizer,
     buffer       |-> buffer,
     step_count   |-> step_count,
     epsilon      |-> epsilon,
     epsilon_min  |-> epsilon_min,
     epsilon_dec  |-> epsilon_dec]

----------------------------------------------------------------------------
(* Bounds *)

\* Fixed-point resolution: 1.0 is Scale.
Scale == 4
\* Learn is not called once step_count, or the number of optimizer steps,
\* has reached MaxSteps.
MaxSteps == 4
\* Largest slate size requested (the smallest is -1).
MaxK == 3
\* decay_epsilon is not called once epsilon has grown past MaxEpsilon / Scale.
MaxEpsilon == 12

----------------------------------------------------------------------------
(* Small helpers *)

Max2(a, b) == IF a >= b THEN a ELSE b
Min2(a, b) == IF a <= b THEN a ELSE b

\* The float product a * b of two fixed-point numbers, rounded to the grid.
FMul(a, b) == (a * b + Scale \div 2) \div Scale

Range(s) == {s[i] : i \in 1..Len(s)}

\* All sequences over S of length at most n.
SeqsUpTo(S, n) == UNION {[1..k -> S] : k \in 0..n}

\* Injective index sequences of length n into 1..m: sampling without replacement.
Samples(m, n) == {s \in [1..n -> 1..m] : \A i, j \in 1..n : i # j => s[i] # s[j]}

----------------------------------------------------------------------------
(* The value network (QNetwork) and the candidate groups *)

\* QNetwork.forward on one (state, candidate) pair.
QValue(p, s, c) == p.w * c + p.b * s

\* One batched call: states[i] paired with cands[i], outputs in input order.
QBatch(p, states, cands) == [i \in 1..Len(cands) |-> QValue(p, states[i], cands[i])]

\* A candidate group is a dict in insertion order: a sequence of
\* <<content type, embeddings>> with pairwise distinct content types.

RECURSIVE Concat(_)
\* chain.from_iterable over a sequence of sequences.
Concat(ss) == IF ss = <<>> THEN <<>> ELSE Head(ss) \o Concat(Tail(ss))

\* list(chain.from_iterable(nxt.values()))
AllEmbs(nxt) == Concat([j \in 1..Len(nxt) |-> nxt[j][2]])

----------------------------------------------------------------------------
(* select_action *)

RECURSIVE ArgMaxFrom(_, _, _)
ArgMaxFrom(q, i, best) ==
    IF i > Len(q) THEN best
    ELSE ArgMaxFrom(q, i + 1, IF q[i] > q[best] THEN i ELSE best)

RECURSIVE ArgMaxLastFrom(_, _, _)
ArgMaxLastFrom(q, i, best) ==
    IF i > Len(q) THEN best
    ELSE ArgMaxLastFrom(q, i + 1, IF q[i] >= q[best] THEN i ELSE best)

\* A scan that keeps the last maximal position instead of the first.
ArgMaxLast(q) == ArgMaxLastFrom(q, 2, 1) - 1

\* torch.argmax(q_vals).item(): the 0-based position of the first maximum.
ArgMax(q) == ArgMaxFrom(q, 2, 1) - 1

\* The exploitation branch of select_action.
GreedyAction(p, user_state, candidate_embs) ==
    ArgMax(QBatch(p, [i \in 1..Len(candidate_embs) |-> user_state], candidate_embs))

----------------------------------------------------------------------------
(* select_slate *)

\* all_candidates: every (ctype, idx), types in dict order, idx from 0.
AllCandidates(candidate_embs) ==
    Concat([j \in 1..Len(candidate_embs) |->
              [i \in 1..Len(candidate_embs[j][2]) |-> <<candidate_embs[j][1], i - 1>>]])

\* q_values_with_pos before sorting: ((ctype, i), q) per candidate.
QValuesWithPos(p, state, candidate_embs) ==
    Concat([j \in 1..Len(candidate_embs) |->
              LET embs == candidate_embs[j][2]
                  q_vals == QBatch(p, [i \in 1..Len(embs) |-> state], embs)
              IN  [i \in 1..Len(embs) |-> <<<<candidate_embs[j][1], i - 1>>, q_vals[i]>>]])

\* x goes before the first element of the sorted list whose value is not above x's.
InsertDescUnstable(sorted, x) ==
    LET before == {i \in 1..Len(sorted) : sorted[i][2] > x[2]}
        k == Cardinality(before)
    IN  SubSeq(sorted, 1, k) \o <<x>> \o SubSeq(sorted, k + 1, Len(sorted))

\* x goes after every element of the sorted list whose value is at least x's.
InsertDesc(sorted, x) ==
    LET before == {i \in 1..Len(sorted) : sorted[i][2] >= x[2]}
        k == Cardinality(before)
    IN  SubSeq(sorted, 1, k) \o <<x>> \o SubSeq(sorted, k + 1, Len(sorted))

RECURSIVE SortDescInto(_, _)
SortDescInto(sorted, rest) ==
    IF rest = <<>> THEN sorted
    ELSE SortDescInto(InsertDesc(sorted, Head(rest)), Tail(rest))

\* list.sort(key=lambda x: x[1], reverse=True): descending and stable.
SortDesc(s) == SortDescInto(<<>>, s)

\* The Python slice s[:k]; a negative k counts from the end.
Slice(s, k) ==
    IF k >= 0 THEN SubSeq(s, 1, Min2(k, Len(s)))
    ELSE SubSeq(s, 1, Max2(0, Len(s) + k))

\* The exploitation branch of select_slate.
GreedySlate(p, state, candidate_embs, max_recs) ==
    LET ranked == SortDesc(QValuesWithPos(p, state, candidate_embs))
    IN  [i \in 1..Len(Slice(ranked, max_recs)) |-> Slice(ranked, max_recs)[i][1]]

----------------------------------------------------------------------------
(* learn: the bootstrap target over ragged next-candidate groups *)

\* The flat work list of learn: for record i, in order, one entry
\* (next_state_i, cand, i) per candidate of its next-candidate group.
\* batch_indices are 0-based as in the code.
FlatWork(b) ==
    Concat([i \in 1..Len(b) |->
              LET all_embs == AllEmbs(b[i].next_cands)
              IN  [k \in 1..Len(all_embs) |->
                     [ns |-> b[i].next_state, cand |-> all_embs[k], idx |-> i - 1]]])

RECURSIVE SeqMax(_)
\* ndarray.max() of a non-empty sequence.
SeqMax(q) ==
    IF Len(q) = 1 THEN q[1] ELSE Max2(q[1], SeqMax(Tail(q)))

RECURSIVE Masked(_, _, _)
\* q_flat[batch_indices == i]: the values whose carried index is i, in order.
Masked(q_flat, batch_indices, i) ==
    IF q_flat = <<>> THEN <<>>
    ELSE (IF Head(batch_indices) = i THEN <<Head(q_flat)>> ELSE <<>>)
         \o Masked(Tail(q_flat), Tail(batch_indices), i)

\* A segment maximum that starts its running maximum at 0.0.
SampleMaxFromZero(q_flat, batch_indices, i) ==
    LET sample_qs == Masked(q_flat, batch_indices, i)
    IN  IF Len(sample_qs) > 0 THEN Max2(0, SeqMax(sample_qs)) ELSE 0

\* sample_qs.max() if len(sample_qs) > 0 else 0.0
SampleMax(q_flat, batch_indices, i) ==
    LET sample_qs == Masked(q_flat, batch_indices, i)
    IN  IF Len(sample_qs) > 0 THEN SeqMax(sample_qs) ELSE 0

\* max_nq: one value per record of the batch.
MaxNextQ(tp, b) ==
    LET flat == FlatWork(b)
        flat_states   == [j \in 1..Len(flat) |-> flat[j].ns]
        flat_cands    == [j \in 1..Len(flat) |-> flat[j].cand]
        batch_indices == [j \in 1..Len(flat) |-> flat[j].idx]
    IN  IF flat # <<>>
        THEN LET q_flat == QBatch(tp, flat_states, flat_cands)
             IN  [i \in 1..Len(b) |-> SampleMax(q_flat, batch_indices, i - 1)]
        ELSE [i \in 1..Len(b) |-> 0]

\* target = rs + gamma * max_nq * (1 - ds), in fixed point (1.0 is Scale).
BootstrapTarget(tp, g, b) ==
    LET max_nq == MaxNextQ(tp, b)
    IN  [i \in 1..Len(b) |->
           b[i].reward * Scale + g * max_nq[i] * (1 - (IF b[i].done THEN 1 ELSE 0))]

----------------------------------------------------------------------------
(* Inputs *)

\* Network parameters: the two values training moves between.
ParamsSmall == {[w |-> 1, b |-> 0], [w |-> -1, b |-> -2]}

LossTypes == {"mse", "smooth_l1", "huber"}
Supported == {"mse", "smooth_l1"}

\* An experience: what store() pushes.
Experience(s, a, r, ns, nc, d) ==
    [state |-> s, action |-> a, reward |-> r, next_state |-> ns,
     next_cands |-> nc, done |-> d]

ExperiencesSmall ==
    { Experience(0, 1, 2, 1, << <<"A", <<1, 3>>>>, <<"B", <<2>>>> >>, FALSE),
      Experience(1, 2, -1, 0, <<>>, TRUE) }

\* The value of a variable that holds nothing for the last call.
NoArgs == [state |-> 0, cands |-> <<>>, k |-> 0, explore |-> FALSE]
Ret(kind) == [kind |-> kind, index |-> -1, slate |-> <<>>]

\* batch and target are locals of learn: they hold nothing after another call.
NoLocals == batch' = <<>> /\ target' = <<>>

----------------------------------------------------------------------------
(* __init__ *)

\* The agent right after DQNAgent(...): both networks hold the live
\* network's initial parameters p, the optimizer and the buffer are fresh.
Constructed(p, es, em, ed) ==
    /\ q_net = p
    /\ target_q_net = p
    /\ optimizer = 0
    /\ buffer = <<>>
    /\ step_count = 0
    /\ epsilon = es
    /\ epsilon_min = em
    /\ epsilon_dec = ed

InitWith(P, G, B, U, L, C, E) ==
    /\ gamma \in G
    /\ batch_size \in B
    /\ update_freq \in U
    /\ loss_type \in L
    /\ capacity \in C
    /\ \E p \in P, e \in E :
          /\ eps_start = e[1]
          /\ eps_min = e[2]
          /\ eps_decay = e[3]
          /\ Constructed(p, eps_start, eps_min, eps_decay)
    /\ checkpoint = <<>>
    /\ op = "init"
    /\ args = NoArgs
    /\ ret = Ret("none")
    /\ batch = <<>>
    /\ target = <<>>
    /\ pre = Attributes
    /\ twin = <<>>

----------------------------------------------------------------------------
(* store *)

\* A push that empties a full store before it appends.
PushEmptying(buf, cap, e) ==
    IF Len(buf) >= cap THEN <<e>> ELSE buf \o <<e>>
\* ReplayBuffer.push: append, evicting the oldest record when full.
Push(buf, cap, e) ==
    IF Len(buf) >= cap THEN Tail(buf) \o <<e>> ELSE buf \o <<e>>

\* The twin after store(e) has been repeated on it.
StoreOnTwin(e) ==
    IF twin = <<>> THEN {<<>>}
    ELSE {<<[twin[1] EXCEPT !.attrs.buffer = Push(@, capacity, e),
                            !.ret = Ret("none")]>>}

Store(E) ==
    \E e \in E :
        /\ buffer' = Push(buffer, capacity, e)
        /\ twin' \in StoreOnTwin(e)
        /\ op' = "store"
        /\ pre' = Attributes
        /\ args' = NoArgs
        /\ ret' = Ret("none")
        /\ UNCHANGED <<config, q_net, target_q_net, optimizer, step_count,
                       epsilon, epsilon_min, epsilon_dec, checkpoint>>
        /\ NoLocals

----------------------------------------------------------------------------
(* learn *)

\* A test that lets a store one record short of a batch through.
BelowBatchOffByOne == Len(buffer) < batch_size - 1
\* len(self.buffer) < self.batch_size
BelowBatch == Len(buffer) < batch_size

\* self.step_count % self.update_freq == 0, after every step.
SyncAlways(n) == TRUE
SyncDue(n) == n % update_freq = 0

\* The target network after the sync test of a learn-step that left the
\* live network at new_q.
SyncedTarget(new_q, n) == IF SyncDue(n) THEN new_q ELSE target_q_net

\* The batches the twin's store yields under the random choices that gave
\* the agent its batch: the same positions when the two stores are equally
\* long, any positions otherwise.
TwinBatches(t) ==
    LET same  == {idx \in Samples(Len(buffer), batch_size) :
                     batch' = [i \in 1..batch_size |-> buffer[idx[i]]]}
        drawn == IF batch' # <<>> /\ Len(t.buffer) = Len(buffer)
                 THEN same
                 ELSE Samples(Len(t.buffer), batch_size)
    IN  {[i \in 1..batch_size |-> t.buffer[idx[i]]] : idx \in drawn}

\* The live parameters the optimizer step leaves on the twin: the agent's
\* new ones when the step starts from the agent's parameters, optimizer
\* state, batch and target, any parameters otherwise.
TwinUpdates(t, b, P) ==
    IF /\ ret'.kind = "loss"
       /\ t.q_net = q_net
       /\ t.optimizer = optimizer
       /\ b = batch'
       /\ BootstrapTarget(t.target_q_net, gamma, b) = target'
    THEN {q_net'}
    ELSE P

\* The twin after learn() has been repeated on it.
LearnOnTwin(P) ==
    IF twin = <<>> THEN {<<>>}
    ELSE LET t == twin[1].attrs
             n == t.step_count + 1
         IN  IF Len(t.buffer) < batch_size
             THEN {<<[twin[1] EXCEPT !.ret = Ret("none")]>>}
             ELSE IF loss_type \notin Supported
             THEN {<<[twin[1] EXCEPT !.attrs.step_count = n,
                                     !.ret = Ret("ValueError")]>>}
             ELSE UNION
                    {{<<[twin[1] EXCEPT
                           !.attrs.step_count = n,
                           !.attrs.q_net = new_q,
                           !.attrs.target_q_net = IF SyncDue(n) THEN new_q ELSE @,
                           !.attrs.optimizer = @ + 1,
                           !.ret = Ret("loss")]>> : new_q \in TwinUpdates(t, b, P)}
                       : b \in TwinBatches(t)}

Learn(P) ==
    /\ step_count < MaxSteps
    /\ optimizer < MaxSteps
    /\ op' = "learn"
    /\ pre' = Attributes
    /\ args' = NoArgs
    /\ IF BelowBatch
       THEN /\ ret' = Ret("none")
            /\ NoLocals
            /\ UNCHANGED <<config, agent, checkpoint>>
       ELSE /\ step_count' = step_count + 1
            /\ UNCHANGED <<config, buffer, epsilon, epsilon_min, epsilon_dec,
                           checkpoint>>
            /\ IF batch_size > Len(buffer)
               THEN \* ReplayBuffer.sample asked for more than it holds
                    /\ ret' = Ret("ValueError")
                    /\ NoLocals
                    /\ UNCHANGED <<q_net, target_q_net, optimizer>>
               ELSE /\ \E idx \in Samples(Len(buffer), batch_size) :
                          batch' = [i \in 1..batch_size |-> buffer[idx[i]]]
                    /\ target' = BootstrapTarget(target_q_net, gamma, batch')
                    /\ IF loss_type \in Supported
                       THEN /\ \E new_q \in P :
                                 /\ q_net' = new_q
                                 /\ target_q_net' = SyncedTarget(new_q, step_count')
                            /\ optimizer' = optimizer + 1
                            /\ ret' = Ret("loss")
                       ELSE /\ ret' = Ret("ValueError")
                            /\ UNCHANGED <<q_net, target_q_net, optimizer>>
    /\ twin' \in LearnOnTwin(P)

----------------------------------------------------------------------------
(* decay_epsilon *)

\* Multiplying without the floor.
DecayedUnfloored(e, d, m) == FMul(e, d)
\* The floor taken with min instead of max.
DecayedMin(e, d, m) == Min2(FMul(e, d), m)
\* max(self.epsilon * self.epsilon_dec, self.epsilon_min)
Decayed(e, d, m) == Max2(FMul(e, d), m)

\* The twin after decay_epsilon() has been repeated on it.
DecayOnTwin ==
    IF twin = <<>> THEN {<<>>}
    ELSE {<<[twin[1] EXCEPT
               !.attrs.epsilon = Decayed(@, twin[1].attrs.epsilon_dec,
                                         twin[1].attrs.epsilon_min),
               !.ret = Ret("none")]>>}

DecayEpsilon ==
    /\ epsilon <= MaxEpsilon
    /\ epsilon' = Decayed(epsilon, epsilon_dec, epsilon_min)
    /\ twin' \in DecayOnTwin
    /\ op' = "decay_epsilon"
    /\ pre' = Attributes
    /\ args' = NoArgs
    /\ ret' = Ret("none")
    /\ NoLocals
    /\ UNCHANGED <<config, q_net, target_q_net, optimizer, buffer, step_count,
                   epsilon_min, epsilon_dec, checkpoint>>

----------------------------------------------------------------------------
(* select_action and select_slate *)

\* random.random() lies in [0, 1).
RandomUnit == 0..(Scale - 1)

\* random.random() < self.epsilon
Explore(r) == r < epsilon

\* The branches the random draw can take in the current state.
Branches == {Explore(r) : r \in RandomUnit}

\* A selection that decays epsilon as it goes.
SelectionDecaysEpsilon ==
    /\ epsilon' = Max2(FMul(epsilon, epsilon_dec), epsilon_min)
    /\ UNCHANGED <<q_net, target_q_net, optimizer, buffer, step_count,
                   epsilon_min, epsilon_dec>>

\* What select_action and select_slate do to the agent's attributes: they
\* assign none of them.
SelectionEffect == UNCHANGED agent

\* The branches the twin takes under the random draws that sent the agent
\* into the branch explore.
TwinBranches(explore) ==
    {r < twin[1].attrs.epsilon : r \in {x \in RandomUnit : Explore(x) = explore}}

\* The twin after select_action has been repeated on it with the random
\* draws of the agent's call.
SelectActionOnTwin(user_state, candidate_embs, explore) ==
    IF twin = <<>> THEN {<<>>}
    ELSE UNION
           {IF candidate_embs = <<>>
            THEN {<<[twin[1] EXCEPT
                       !.ret = Ret(IF x THEN "ValueError" ELSE "RuntimeError")]>>}
            ELSE IF x
            THEN {<<[twin[1] EXCEPT !.ret = [Ret("index") EXCEPT !.index = i]]>> :
                     i \in (IF explore THEN {ret'.index}
                            ELSE 0..(Len(candidate_embs) - 1))}
            ELSE {<<[twin[1] EXCEPT
                       !.ret = [Ret("index") EXCEPT
                                  !.index = GreedyAction(twin[1].attrs.q_net,
                                                         user_state, candidate_embs)]]>>}
              : x \in TwinBranches(explore)}

SelectAction(S, C) ==
    \E user_state \in S, candidate_embs \in C, explore \in Branches :
        /\ op' = "select_action"
        /\ pre' = Attributes
        /\ args' = [state |-> user_state, cands |-> candidate_embs, k |-> 0,
                    explore |-> explore]
        /\ IF candidate_embs = <<>>
           THEN \* randrange(0), or argmax of an empty tensor
                ret' = Ret(IF explore THEN "ValueError" ELSE "RuntimeError")
           ELSE IF explore
           THEN \E i \in 0..(Len(candidate_embs) - 1) :
                    ret' = [Ret("index") EXCEPT !.index = i]
           ELSE ret' = [Ret("index") EXCEPT
                          !.index = GreedyAction(q_net, user_state, candidate_embs)]
        /\ NoLocals
        /\ twin' \in SelectActionOnTwin(user_state, candidate_embs, explore)
        /\ SelectionEffect
        /\ UNCHANGED <<config, checkpoint>>

\* n draws with replacement, as random.choices makes them.
RandomChoices(population, n) ==
    {[i \in 1..n |-> population[idx[i]]] : idx \in [1..n -> 1..Len(population)]}

\* random.sample(population, n): n distinct positions, in any order.
RandomSamples(population, n) ==
    {[i \in 1..n |-> population[idx[i]]] : idx \in Samples(Len(population), n)}

\* The twin after select_slate has been repeated on it with the random
\* draws of the agent's call.
SelectSlateOnTwin(state, candidate_embs, max_recs, explore) ==
    IF twin = <<>> THEN {<<>>}
    ELSE LET all_candidates == AllCandidates(candidate_embs)
             sample_count   == Min2(max_recs, Len(all_candidates))
         IN  UNION
               {IF all_candidates = <<>>
                THEN {<<[twin[1] EXCEPT !.ret = Ret("slate")]>>}
                ELSE IF x
                THEN IF sample_count < 0
                     THEN {<<[twin[1] EXCEPT !.ret = Ret("ValueError")]>>}
                     ELSE {<<[twin[1] EXCEPT
                                !.ret = [Ret("slate") EXCEPT !.slate = sl]]>> :
                              sl \in (IF explore THEN {ret'.slate}
                                      ELSE RandomSamples(all_candidates, sample_count))}
                ELSE {<<[twin[1] EXCEPT
                           !.ret = [Ret("slate") EXCEPT
                                      !.slate = GreedySlate(twin[1].attrs.q_net, state,
                                                            candidate_embs, max_recs)]]>>}
                  : x \in TwinBranches(explore)}

SelectSlate(S, G, K) ==
    \E state \in S, candidate_embs \in G, max_recs \in K, explore \in Branches :
        LET all_candidates == AllCandidates(candidate_embs)
            sample_count   == Min2(max_recs, Len(all_candidates))
        IN  /\ op' = "select_slate"
            /\ pre' = Attributes
            /\ args' = [state |-> state, cands |-> candidate_embs, k |-> max_recs,
                        explore |-> all_candidates # <<>> /\ explore]
            /\ IF all_candidates = <<>>
               THEN ret' = Ret("slate")
               ELSE IF explore
               THEN IF sample_count < 0
                    THEN ret' = Ret("ValueError")
                    ELSE \E sl \in RandomSamples(all_candidates, sample_count) :
                            ret' = [Ret("slate") EXCEPT !.slate = sl]
               ELSE ret' = [Ret("slate") EXCEPT
                              !.slate = GreedySlate(q_net, state, candidate_embs, max_recs)]
            /\ NoLocals
            /\ twin' \in SelectSlateOnTwin(state, candidate_embs, max_recs, explore)
            /\ SelectionEffect
            /\ UNCHANGED <<config, checkpoint>>

----------------------------------------------------------------------------
(* save and load *)

\* The dict save() writes.
SavedCheckpoint ==
    [q_net_state      |-> q_net,
     target_net_state |-> target_q_net,
     optimizer_state  |-> optimizer,
     step_count       |-> step_count,
     epsilon          |-> epsilon,
     epsilon_min      |-> epsilon_min,
     epsilon_dec      |-> epsilon_dec]

\* The twin after save has been repeated on it (into a file of its own).
SaveOnTwin ==
    IF twin = <<>> THEN {<<>>} ELSE {<<[twin[1] EXCEPT !.ret = Ret("none")]>>}

Save ==
    /\ checkpoint' = <<SavedCheckpoint>>
    /\ op' = "save"
    /\ pre' = Attributes
    /\ args' = NoArgs
    /\ ret' = Ret("none")
    /\ NoLocals
    /\ twin' \in SaveOnTwin
    /\ UNCHANGED <<config, agent>>

\* A lookup whose fallback is 0 whatever default it is given.
GetOrZero(ck, key, default) == IF key \in DOMAIN ck THEN ck[key] ELSE 0
\* checkpoint.get(key, default)
Get(ck, key, default) == IF key \in DOMAIN ck THEN ck[key] ELSE default

\* A load that takes the target parameters from the live network's entry.
LoadedTargetFromLive(ck) == ck.q_net_state
\* checkpoint["target_net_state"]
LoadedTarget(ck) == ck.target_net_state

\* A load that leaves the step counter as it is in memory.
LoadedStepCountKept(ck) == step_count
\* checkpoint.get("step_count", 0)
LoadedStepCount(ck) == Get(ck, "step_count", 0)

Load ==
    /\ op' = "load"
    /\ pre' = Attributes
    /\ args' = NoArgs
    /\ IF checkpoint = <<>>
       THEN \* torch.load on a missing file
            /\ ret' = Ret("FileNotFoundError")
            /\ NoLocals
            /\ UNCHANGED <<config, agent, checkpoint>>
       ELSE LET ck == checkpoint[1]
            IN  /\ q_net' = ck.q_net_state
                /\ target_q_net' = LoadedTarget(ck)
                /\ optimizer' = ck.optimizer_state
                /\ step_count' = LoadedStepCount(ck)
                /\ epsilon' = Get(ck, "epsilon", epsilon)
                /\ epsilon_min' = Get(ck, "epsilon_min", epsilon_min)
                /\ epsilon_dec' = Get(ck, "epsilon_dec", epsilon_dec)
                /\ ret' = Ret("none")
                /\ NoLocals
                /\ UNCHANGED <<config, buffer, checkpoint>>
    /\ twin' = <<>>

\* The attributes of a newly constructed agent with live parameters p.
FreshAttributes(p) ==
    [q_net        |-> p,
     target_q_net |-> p,
     optimizer    |-> 0,
     buffer       |-> <<>>,
     step_count   |-> 0,
     epsilon      |-> eps_start,
     epsilon_min  |-> eps_min,
     epsilon_dec  |-> eps_decay]

\* A load that does not restore epsilon.
LoadedIntoKeepingEpsilon(t, ck) ==
    [q_net        |-> ck.q_net_state,
     target_q_net |-> LoadedTarget(ck),
     optimizer    |-> ck.optimizer_state,
     buffer       |-> t.buffer,
     step_count   |-> Get(ck, "step_count", 0),
     epsilon      |-> t.epsilon,
     epsilon_min  |-> Get(ck, "epsilon_min", t.epsilon_min),
     epsilon_dec  |-> Get(ck, "epsilon_dec", t.epsilon_dec)]

\* The attributes t of an agent after it has loaded the checkpoint ck.
LoadedInto(t, ck) ==
    [q_net        |-> ck.q_net_state,
     target_q_net |-> LoadedTarget(ck),
     optimizer    |-> ck.optimizer_state,
     buffer       |-> t.buffer,
     step_count   |-> Get(ck, "step_count", 0),
     epsilon      |-> Get(ck, "epsilon", t.epsilon),
     epsilon_min  |-> Get(ck, "epsilon_min", t.epsilon_min),
     epsilon_dec  |-> Get(ck, "epsilon_dec", t.epsilon_dec)]

\* Right after a save, a second agent is constructed with the same
\* configuration and loads the checkpoint: it becomes the twin.  base is
\* the agent's step counter at that moment.
ResumeTwin(P) ==
    /\ op = "save"
    /\ \E p \in P :
          twin' = <<[attrs |-> LoadedInto(FreshAttributes(p), checkpoint[1]),
                     ret   |-> Ret("none"),
                     base  |-> step_count]>>
    /\ op' = "resume"
    /\ pre' = Attributes
    /\ args' = NoArgs
    /\ ret' = Ret("none")
    /\ NoLocals
    /\ UNCHANGED <<config, agent, checkpoint>>

\* A new DQNAgent built with the same configuration (a restarted process);
\* the checkpoint file stays on disk.  A constructor call has no agent
\* before it: pre holds the attributes of the agent it built.
Reconstruct(P) ==
    /\ \E p \in P :
          /\ q_net' = p
          /\ target_q_net' = p
    /\ optimizer' = 0
    /\ buffer' = <<>>
    /\ step_count' = 0
    /\ epsilon' = eps_start
    /\ epsilon_min' = eps_min
    /\ epsilon_dec' = eps_decay
    /\ op' = "init"
    /\ args' = NoArgs
    /\ ret' = Ret("none")
    /\ NoLocals
    /\ pre' = Attributes'
    /\ twin' = <<>>
    /\ UNCHANGED <<config, checkpoint>>

\* The keys load reads with checkpoint[...] and with checkpoint.get(...).
RequiredKeys == {"q_net_state", "target_net_state", "optimizer_state"}
OptionalKeys == {"step_count", "epsilon", "epsilon_min", "epsilon_dec"}

\* A checkpoint file written without the optional keys in D (by a version
\* of save that did not write them yet): what load's .get calls allow for.
SaveWithout(DD) ==
    \E D \in DD :
        /\ checkpoint' =
              <<[key \in RequiredKeys \cup (OptionalKeys \ D) |-> SavedCheckpoint[key]]>>
        /\ op' = "save"
        /\ pre' = Attributes
        /\ args' = NoArgs
        /\ ret' = Ret("none")
        /\ NoLocals
        /\ UNCHANGED <<config, agent, twin>>

\* A new DQNAgent built with other eps_start, eps_min, eps_decay; the
\* checkpoint file stays on disk.
ReconstructWith(P, E) ==
    /\ \E p \in P :
          /\ q_net' = p
          /\ target_q_net' = p
    /\ \E e \in E :
          /\ eps_start' = e[1]
          /\ eps_min' = e[2]
          /\ eps_decay' = e[3]
    /\ optimizer' = 0
    /\ buffer' = <<>>
    /\ step_count' = 0
    /\ epsilon' = eps_start'
    /\ epsilon_min' = eps_min'
    /\ epsilon_dec' = eps_decay'
    /\ op' = "init"
    /\ args' = NoArgs
    /\ ret' = Ret("none")
    /\ NoLocals
    /\ pre' = Attributes'
    /\ twin' = <<>>
    /\ UNCHANGED <<gamma, batch_size, update_freq, loss_type, capacity, checkpoint>>

----------------------------------------------------------------------------
(* Training: store, learn, decay_epsilon and the selections, from a        *)
(* freshly constructed agent, over the configurations.                     *)

\* eps_start = 1.0, eps_min = 1/Scale, eps_decay = 0.5
EpsMain == {<<Scale, 1, Scale \div 2>>}

ActionCands == {<<1, 2>>}
SlateGroupsSmall == { << <<"A", <<1, 2>>>> >> }

InitTrain ==
    InitWith(ParamsSmall, {Scale \div 2}, {1, 2}, {2, 3}, LossTypes, {1, 2}, EpsMain)

NextTrain ==
    \/ Store(ExperiencesSmall)
    \/ Learn(ParamsSmall)
    \/ DecayEpsilon
    \/ SelectAction({0}, ActionCands)
    \/ SelectSlate({0}, SlateGroupsSmall, {1})

SpecTrain == InitTrain /\ [][NextTrain]_vars

----------------------------------------------------------------------------
(* The agent under every public operation, checkpoints included.           *)

\* One terminal experience without next candidates.
ExperiencesOne == {Experience(1, 2, -1, 0, <<>>, TRUE)}

Init ==
    InitWith(ParamsSmall, {Scale \div 2}, {1, 2}, {2}, {"mse", "huber"}, {1, 2}, EpsMain)

Next ==
    \/ Store(ExperiencesOne)
    \/ Learn(ParamsSmall)
    \/ DecayEpsilon
    \/ SelectAction({0}, ActionCands)
    \/ SelectSlate({0}, SlateGroupsSmall, {1})
    \/ Save
    \/ Load
    \/ Reconstruct(ParamsSmall)

Spec == Init /\ [][Next]_vars

----------------------------------------------------------------------------
(* The epsilon schedule over the constructor arguments __init__ accepts:   *)
(* it validates none of them.                                              *)

EpsAll ==
    {<<es, em, ed>> : es \in -1..(Scale + 1), em \in -1..(Scale + 1),
                      ed \in 0..(Scale + 2)}

InitEpsilon ==
    InitWith({[w |-> 1, b |-> 0]}, {Scale \div 2}, {1}, {2}, {"mse"}, {1}, EpsAll)

NextEpsilon == DecayEpsilon

SpecEpsilon == InitEpsilon /\ [][NextEpsilon]_vars

----------------------------------------------------------------------------
(* The bootstrap target over ragged batches: store and learn.              *)

\* Next-candidate groups: none, one type, several types of unequal sizes,
\* an empty type.
NextGroups ==
    { <<>>,
      << <<"A", <<2>>>> >>,
      << <<"A", <<1, 3>>>>, <<"B", <<2>>>> >>,
      << <<"B", <<>>>>, <<"A", <<3, 1, 1>>>> >> }

ExperiencesAll ==
    {Experience(0, 1, 2, ns, nc, d) :
        ns \in {0, 1}, nc \in NextGroups, d \in BOOLEAN}

InitTarget ==
    InitWith(ParamsSmall, {Scale \div 2, Scale}, {2}, {2}, {"mse"}, {2},
             {<<0, 0, Scale>>})

NextTarget ==
    \/ Store(ExperiencesAll)
    \/ Learn(ParamsSmall)

SpecTarget == InitTarget /\ [][NextTarget]_vars

----------------------------------------------------------------------------
(* The selections over candidate lists and groups, with epsilon = 0        *)
(* (exploitation only) and epsilon = 0.5 (both branches).                  *)

Embs == 1..3

ActionCandsAll == SeqsUpTo(Embs, 3)

\* Dicts of candidates: none, an empty type, ties within a type and
\* across types, both insertion orders.
SlateGroupsAll ==
    { <<>>,
      << <<"A", <<>>>> >>,
      << <<"A", <<1, 2>>>> >>,
      << <<"A", <<2, 2>>>> >>,
      << <<"A", <<1, 2>>>>, <<"B", <<3>>>> >>,
      << <<"B", <<3>>>>, <<"A", <<1, 2>>>> >>,
      << <<"A", <<2>>>>, <<"B", <<2>>>> >>,
      << <<"B", <<2>>>>, <<"A", <<2>>>> >>,
      << <<"A", <<>>>>, <<"B", <<1, 1>>>> >>,
      << <<"A", <<1, 3>>>>, <<"B", <<3, 1>>>> >> }

InitSelect ==
    InitWith(ParamsSmall, {Scale \div 2}, {1}, {2}, {"mse"}, {1},
             {<<0, 0, Scale>>, <<Scale \div 2, 0, Scale>>})

NextSelect ==
    \/ SelectAction({0}, ActionCandsAll)
    \/ SelectSlate({0}, SlateGroupsAll, -1..MaxK)

SpecSelect == InitSelect /\ [][NextSelect]_vars

----------------------------------------------------------------------------
(* The epsilon attributes under every operation of one agent, over the     *)
(* constructor arguments __init__ accepts.                                 *)

ParamsOne == {[w |-> 1, b |-> 0]}

\* eps_start, eps_min and eps_decay below, at and above the ends of [0, 1].
EpsEnds ==
    {<<es, em, ed>> : es \in {-1, 1, Scale, Scale + 1},
                      em \in {-1, 0, 1, Scale + 1},
                      ed \in {0, Scale \div 2, Scale, Scale + 1}}

InitRange ==
    InitWith(ParamsOne, {Scale \div 2}, {1}, {2}, {"mse"}, {1}, EpsEnds)

NextRange ==
    \/ Store(ExperiencesOne)
    \/ Learn(ParamsOne)
    \/ DecayEpsilon
    \/ SelectAction({0}, ActionCands)
    \/ SelectSlate({0}, SlateGroupsSmall, {1})
    \/ Save
    \/ Load

SpecRange == InitRange /\ [][NextRange]_vars

----------------------------------------------------------------------------
(* Loading checkpoints that lack optional keys, into the saving agent and  *)
(* into agents constructed with other epsilon arguments.                   *)

\* (1.0, 0.25, 0.5) and (0.5, 0.0, 1.0)
EpsTwo == {<<Scale, 1, Scale \div 2>>, <<Scale \div 2, 0, Scale>>}

\* The optional keys a checkpoint file lacks.
Dropped ==
    { {"step_count"}, {"epsilon", "epsilon_min"}, {"step_count", "epsilon"},
      OptionalKeys }

InitLenient ==
    InitWith(ParamsSmall, {Scale \div 2}, {1}, {2}, {"mse"}, {1}, EpsTwo)

NextLenient ==
    \/ Store(ExperiencesOne)
    \/ Learn(ParamsOne)
    \/ DecayEpsilon
    \/ Save
    \/ SaveWithout(Dropped)
    \/ Load
    \/ ReconstructWith(ParamsSmall, EpsTwo)

SpecLenient == InitLenient /\ [][NextLenient]_vars

----------------------------------------------------------------------------
(* Resumption: an agent and the twin resumed from its checkpoint, under    *)
(* the same calls with the same random draws.                              *)

InitResume ==
    InitWith(ParamsSmall, {Scale \div 2}, {1}, {2}, {"mse"}, {1}, EpsMain)

NextResume ==
    \/ Store(ExperiencesOne)
    \/ Learn(ParamsSmall)
    \/ DecayEpsilon
    \/ SelectAction({0}, ActionCands)
    \/ SelectSlate({0}, SlateGroupsSmall, {1})
    \/ Save
    \/ ResumeTwin(ParamsSmall)

SpecResume == InitResume /\ [][NextResume]_vars

----------------------------------------------------------------------------
(* LLMResponseHandler: Python and JSON values *)

\* A value and its Python type. v is the number of a bool (0, 1) or an int,
\* Scale times the number of a float, and the length of a str.
Value(t, v) == [t |-> t, v |-> v]

None == Value("null", 0)
Bool(b) == Value("bool", IF b THEN 1 ELSE 0)
Integer(n) == Value("int", n)
Float(f) == Value("float", f)
NaN == Value("nan", 0)
\* A string that is no decimal number, of n characters.
Str(n) == Value("str", n)
\* The decimal string of the integer n.
NumStr(n) == Value("numstr", n)
\* What a dict holds under a key it lacks.
Absent == Value("absent", 0)
\* Text that is no JSON document.
Garbage == Value("garbage", 0)

\* A JSON array.
List(items) == [t |-> "list", v |-> 0, items |-> items]
\* A JSON object with n keys other than "responses".
Object(n, responses) == [t |-> "object", v |-> n, responses |-> responses]
\* A response object: the four keys the handler reads.
Dict(content_id, clicked, dwell_time_seconds, dwell_time) ==
    [t |-> "dict", v |-> 0, content_id |-> content_id, clicked |-> clicked,
     dwell_time_seconds |-> dwell_time_seconds, dwell_time |-> dwell_time]

\* d.get(key, default)
DictGet(d, key, default) == IF d[key].t = "absent" THEN default ELSE d[key]

\* int(x): truncation toward zero of a number, the number of a decimal
\* string; TypeError on None, ValueError on NaN and on any other string.
PyInt(x) ==
    CASE x.t \in {"bool", "int", "numstr"} -> [ok |-> TRUE, value |-> Integer(x.v)]
      [] x.t = "float" ->
            [ok |-> TRUE,
             value |-> Integer(IF x.v >= 0 THEN x.v \div Scale ELSE -((-x.v) \div Scale))]
      [] OTHER -> [ok |-> FALSE, value |-> None]

\* isinstance(x, (int, float)): bool is a subclass of int, NaN is a float.
IsNumber(x) == x.t \in {"bool", "int", "float", "nan"}
\* x < 0 and x > 0 of a number: both False of NaN.
Negative(x) == x.t \in {"int", "float"} /\ x.v < 0
Positive(x) == x.t \in {"bool", "int", "float"} /\ x.v > 0

\* x in s, for a set s of ints: equality of numbers, never of a string.
PyIn(x, s) ==
    \/ x.t \in {"bool", "int"} /\ x.v \in s
    \/ x.t = "float" /\ x.v % Scale = 0 /\ (x.v \div Scale) \in s

\* len(x): TypeError on what has no length.
PyLen(x) ==
    CASE x.t = "list" -> [ok |-> TRUE, len |-> Len(x.items)]
      [] x.t = "str" -> [ok |-> TRUE, len |-> x.v]
      [] x.t = "object" ->
            [ok |-> TRUE, len |-> x.v + (IF x.responses.t = "absent" THEN 0 ELSE 1)]
      [] OTHER -> [ok |-> FALSE, len |-> 0]

\* What enumerate(x) goes through: the items of a list, the characters of
\* a str, the keys of an object.
PyItems(x) ==
    CASE x.t = "list" -> x.items
      [] OTHER -> [i \in 1..PyLen(x).len |-> Str(1)]

----------------------------------------------------------------------------
(* LLMResponseHandler._parse_json, _validate_response_count *)

\* The raw text: a JSON document as it stands ("plain"), between Markdown
\* code fences ("fenced"), or after a sentence of prose ("prose").
Text(form, json) == [form |-> form, json |-> json]

\* strip() and the two re.sub calls: the document without its fences. They
\* anchor at the ends of the text, so prose before the document stays.
StripFences(text) ==
    IF text.form \in {"plain", "fenced"} THEN text.json ELSE Garbage

\* The responses, or ValueError.
ParseJson(text) ==
    LET parsed == StripFences(text)
    IN  CASE parsed.t = "list" -> [ok |-> TRUE, responses |-> parsed]
          [] parsed.t = "object" /\ parsed.responses.t # "absent" ->
                [ok |-> TRUE, responses |-> parsed.responses]
          [] OTHER -> [ok |-> FALSE, responses |-> None]

\* TRUE when the call returns, FALSE when it raises.
ValidateResponseCount(responses, expected_count) ==
    PyLen(responses).ok /\ PyLen(responses).len = expected_count

----------------------------------------------------------------------------
(* LLMResponseHandler._parse_single_response_for_all *)

\* The correction of lines 260-267.
Uncorrected(clicked, dwell_time) == dwell_time
Corrected(clicked, dwell_time) ==
    IF ~clicked /\ Positive(dwell_time) THEN Integer(0) ELSE dwell_time

\* (clicked, int(dwell_time)), or the exception of int().
ParseSingleResponseForAll(response) ==
    LET got     == DictGet(response, "clicked", Bool(FALSE))
        clicked == IF got.t = "bool" THEN got.v = 1 ELSE FALSE
        dwell   == DictGet(response, "dwell_time_seconds",
                           DictGet(response, "dwell_time", Integer(0)))
        valid   == IF ~IsNumber(dwell) \/ Negative(dwell) THEN Integer(0) ELSE dwell
        final   == PyInt(Corrected(clicked, valid))
    IN  [ok |-> final.ok, clicked |-> Bool(clicked), dwell_time |-> final.value]

----------------------------------------------------------------------------
(* LLMResponseHandler._extract_all_content_responses *)

Entry(content_id, clicked, dwell_time) ==
    [content_id |-> content_id, clicked |-> clicked, dwell_time |-> dwell_time]

\* content.get("id")
ContentId(content) == DictGet(content, "id", None)

\* What a call that raised leaves.
Raised == [ok |-> FALSE, result |-> <<>>]

\* The id an entry gets: the one at the response's position.
Matched(content_ids, i, own) == content_ids[i + 1]

\* The loop over enumerate(responses) from index i on.
RECURSIVE ExtractFrom(_, _, _, _)
ExtractFrom(responses, content_ids, i, result) ==
    IF i >= Len(responses)
    THEN [ok |-> TRUE, result |-> result]
    ELSE LET resp == responses[i + 1]
         IN  IF resp.t # "dict"
             THEN ExtractFrom(responses, content_ids, i + 1,
                      IF i < Len(content_ids)
                      THEN Append(result, Entry(content_ids[i + 1], Bool(FALSE), Integer(0)))
                      ELSE result)
             ELSE LET content_id == PyInt(DictGet(resp, "content_id", None))
                      one == ParseSingleResponseForAll(resp)
                  IN  IF ~content_id.ok
                      THEN Raised
                      ELSE IF i >= Len(content_ids)
                      THEN ExtractFrom(responses, content_ids, i + 1, result)
                      ELSE IF ~one.ok
                      THEN Raised
                      ELSE ExtractFrom(responses, content_ids, i + 1,
                               Append(result,
                                      Entry(Matched(content_ids, i, content_id.value),
                                            one.clicked, one.dwell_time)))

\* The loop, then a default entry for every content whose id is not among
\* the int() of the ids in the result.
ExtractAllContentResponses(responses, all_contents) ==
    LET content_ids == [i \in 1..Len(all_contents) |-> ContentId(all_contents[i])]
        looped == ExtractFrom(PyItems(responses), content_ids, 0, <<>>)
    IN  IF ~looped.ok
        THEN Raised
        ELSE IF \E j \in 1..Len(looped.result) : ~PyInt(looped.result[j].content_id).ok
        THEN Raised
        ELSE LET response_content_ids ==
                     {PyInt(looped.result[j].content_id).value.v :
                          j \in 1..Len(looped.result)}
                 missing ==
                     SelectSeq(content_ids, LAMBDA c : ~PyIn(c, response_content_ids))
             IN  [ok |-> TRUE,
                  result |-> looped.result \o
                      [j \in 1..Len(missing) |-> Entry(missing[j], Bool(FALSE), Integer(0))]]

----------------------------------------------------------------------------
(* LLMResponseHandler._create_fallback_all_responses *)

FallbackDwellMin == 60
FallbackDwellMax == 300

\* The draws of random.randint(lo, hi) the model takes: both ends and the
\* middle.
RandInt(lo, hi) == {lo, (lo + hi) \div 2, hi}

\* One content's entry: not clicked with no dwell time, or clicked with a
\* drawn one.
FallbackEntries(content) ==
    {Entry(ContentId(content), Bool(FALSE), Integer(0))} \cup
    {Entry(ContentId(content), Bool(TRUE), Integer(d)) :
         d \in RandInt(FallbackDwellMin, FallbackDwellMax)}

\* Every list the random draws can give.
RECURSIVE CreateFallbackAllResponses(_)
CreateFallbackAllResponses(all_contents) ==
    IF all_contents = <<>>
    THEN {<<>>}
    ELSE {<<e>> \o rest : e \in FallbackEntries(Head(all_contents)),
                          rest \in CreateFallbackAllResponses(Tail(all_contents))}

----------------------------------------------------------------------------
(* LLMResponseHandler.extract_all_responses *)

\* The lists the call can return, each with the path that built it.
ExtractAllResponsesResults(llm_raw_text, all_contents) ==
    LET parsed == ParseJson(llm_raw_text)
        extracted ==
            IF parsed.ok /\ ValidateResponseCount(parsed.responses, Len(all_contents))
            THEN ExtractAllContentResponses(parsed.responses, all_contents)
            ELSE Raised
    IN  IF extracted.ok
        THEN {[kind |-> "responses", source |-> "parsed",
               responses |-> extracted.result]}
        ELSE {[kind |-> "responses", source |-> "fallback", responses |-> r] :
                  r \in CreateFallbackAllResponses(all_contents)}

\* extract_all_responses(llm_raw_text, all_contents). The handler keeps no
\* state between calls: one call from the start stands for every call.
ExtractAllResponses(T, C) ==
    /\ op = "init"
    /\ \E llm_raw_text \in T, all_contents \in C :
          /\ args' = [text |-> llm_raw_text, contents |-> all_contents]
          /\ ret' \in ExtractAllResponsesResults(llm_raw_text, all_contents)
    /\ op' = "extract_all_responses"
    /\ NoLocals
    /\ pre' = Attributes
    /\ UNCHANGED <<config, agent, checkpoint, twin>>

----------------------------------------------------------------------------
(* The handler over raw texts and content lists.                           *)

\* content_id of a response: missing, null, the first content's id, an id
\* of no content, a decimal string, another string.
ContentIdValues == {Absent, None, Integer(1), Integer(9), NumStr(2), Str(3)}

\* clicked: missing, true, false, the string "yes".
ClickedValues == {Absent, Bool(TRUE), Bool(FALSE), Str(3)}

\* (dwell_time_seconds, dwell_time): none, one, both, negative, NaN,
\* fractional, a string, a bool, zero.
DwellValues ==
    { <<Absent, Absent>>, <<Absent, Integer(30)>>, <<Integer(12), Integer(30)>>,
      <<Absent, Integer(-4)>>, <<NaN, Absent>>, <<Float((5 * Scale) \div 2), Absent>>,
      <<Str(3), Integer(30)>>, <<Absent, Bool(TRUE)>>, <<Integer(0), Absent>> }

ResponseDicts ==
    {Dict(c, k, d[1], d[2]) : c \in ContentIdValues, k \in ClickedValues,
                              d \in DwellValues}

\* What a list holds in place of a response object.
NonDicts == {Str(3), Integer(5), None}

ResponsesAll == ResponseDicts \cup NonDicts

\* The responses the lists of two are made of.
ResponsesFew ==
    { Dict(Integer(1), Bool(TRUE), Absent, Integer(30)),
      Dict(Integer(9), Bool(FALSE), Integer(12), Absent),
      Dict(Absent, Bool(TRUE), Absent, Integer(30)),
      Dict(None, Bool(FALSE), Absent, Absent),
      Dict(Str(3), Bool(TRUE), Integer(12), Integer(30)),
      Dict(NumStr(2), Str(3), Absent, Integer(30)),
      Dict(Integer(1), Bool(TRUE), NaN, Absent),
      Dict(Integer(2), Bool(TRUE), Absent, Integer(-4)),
      Str(3) }

ResponseListsOne == {<<>>} \cup {<<r>> : r \in ResponsesAll}
ResponseListsTwo == {<<r, s>> : r \in ResponsesFew, s \in ResponsesFew}

\* Arrays, objects with and without "responses", scalars, no JSON.
Documents ==
    {List(l) : l \in ResponseListsOne \cup ResponseListsTwo} \cup
    {Object(1, List(l)) : l \in ResponseListsTwo} \cup
    { Object(0, List(<<>>)), Object(0, Str(2)), Object(0, Integer(2)),
      Object(0, Object(1, Absent)), Object(2, Absent), Integer(5), None, Str(3),
      Garbage }

TextsAll ==
    {Text(f, j) : f \in {"plain", "fenced"}, j \in Documents} \cup
    {Text("prose", List(l)) : l \in ResponseListsTwo}

\* A content: the key the handler reads.
Content(id) == [t |-> "dict", v |-> 0, id |-> id]

\* Ids: ints, a decimal string, missing.
ContentValues ==
    {Content(Integer(1)), Content(Integer(2)), Content(NumStr(2)), Content(Absent)}

ContentsAll == SeqsUpTo(ContentValues, 2)

InitHandler ==
    InitWith(ParamsOne, {Scale \div 2}, {1}, {2}, {"mse"}, {1}, EpsMain)

NextHandler == ExtractAllResponses(TextsAll, ContentsAll)

SpecHandler == InitHandler /\ [][NextHandler]_vars

----------------------------------------------------------------------------
(* One agent from construction on: store, learn, the selections,           *)
(* decay_epsilon, save and load, over store capacities below and at the    *)
(* batch size.                                                             *)

InitCollect ==
    InitWith(ParamsOne, {Scale \div 2}, {1, 2}, {2}, {"mse", "huber"}, {1, 2}, EpsMain)

NextCollect ==
    \/ Store(ExperiencesSmall)
    \/ Learn(ParamsOne)
    \/ DecayEpsilon
    \/ SelectAction({0}, ActionCands)
    \/ SelectSlate({0}, SlateGroupsSmall, {1})
    \/ Save
    \/ Load

SpecCollect == InitCollect /\ [][NextCollect]_vars

----------------------------------------------------------------------------
(* Claims *)

\* A learn-step that ran its gradient update.
Learned == op = "learn" /\ ret.kind = "loss"

\* C1 (target sync cadence), under SpecTrain: a learn-step that updates the
\* live network and brings the step counter to a multiple of update_freq
\* leaves the target parameters equal to the updated live parameters; every
\* other step (a learn-step off the cadence, a no-op learn, store,
\* decay_epsilon, a selection) leaves the target parameters as they were.
C1_TargetSyncCadence ==
    IF Learned /\ step_count % update_freq = 0
    THEN target_q_net = q_net
    ELSE target_q_net = pre.target_q_net

\* C1's case: after one sync (step 2 of period 2) a third learn-step has
\* changed the live network and the target network still holds the synced
\* parameters.
C1_Witness ==
    /\ Learned
    /\ update_freq = 2
    /\ step_count = 3
    /\ q_net # target_q_net

\* C2 (no-op below batch size), under Spec: a learn call on a store holding
\* fewer than batch_size records returns None without an error and leaves
\* the step counter, epsilon, both networks, the optimizer and the store
\* unchanged.
C2_NoOpBelowBatch ==
    (op = "learn" /\ Len(pre.buffer) < batch_size)
      => (ret.kind = "none" /\ Attributes = pre)

\* C2's case: learn has just returned None on a store one record short of
\* the batch, on an agent that has trained before (its state was restored
\* from a checkpoint into a new agent).
C2_Witness ==
    /\ op = "learn"
    /\ ret.kind = "none"
    /\ batch_size = 2
    /\ Len(buffer) = 1
    /\ step_count > 0

\* The set of embeddings in record e's own next-candidate group, every
\* content type together.
OwnCandidates(e) ==
    UNION {Range(e.next_cands[j][2]) : j \in 1..Len(e.next_cands)}

\* The largest element of a non-empty set of integers.
Largest(S) == CHOOSE x \in S : \A y \in S : y <= x

\* reward + gamma * m * (1 - done), with m the largest target-network value
\* over e's own candidates paired with e's own next state, or 0.0 without a
\* candidate (fixed point, 1.0 is Scale).
ExpectedTarget(tp, g, e) ==
    LET own == {QValue(tp, e.next_state, c) : c \in OwnCandidates(e)}
        m   == IF own = {} THEN 0 ELSE Largest(own)
    IN  e.reward * Scale + g * m * (IF e.done THEN 0 ELSE 1)

\* C3 (ragged bootstrap target), under SpecTarget: in every learn-step that
\* samples a batch, the target has one entry per record and entry i is
\* reward_i + gamma * m_i * (1 - done_i), m_i being the maximum of the
\* target network (as it is before the step) over record i's own next
\* candidates and next state, and 0.0 when record i has none.
C3_RaggedBootstrapTarget ==
    (op = "learn" /\ batch # <<>>)
      => /\ Len(target) = Len(batch)
         /\ \A i \in 1..Len(batch) :
               target[i] = ExpectedTarget(pre.target_q_net, gamma, batch[i])

\* C3's case: a sampled batch whose first record has no next candidate and
\* is not terminal, and whose second record has candidates of two content
\* types, all valued below zero by the target network.
C3_Witness ==
    /\ op = "learn"
    /\ Len(batch) = 2
    /\ AllEmbs(batch[1].next_cands) = <<>>
    /\ ~batch[1].done
    /\ target[1] = batch[1].reward * Scale
    /\ Len(batch[2].next_cands) = 2
    /\ Len(AllEmbs(batch[2].next_cands)) = 3
    /\ ~batch[2].done
    /\ target[2] < batch[2].reward * Scale

\* Epsilon is at least epsilon_min before and after the last call, and the
\* call has not raised it.
FlooredAndNotRaised ==
    /\ pre.epsilon >= epsilon_min
    /\ epsilon >= epsilon_min
    /\ epsilon <= pre.epsilon

\* C4 as claimed (epsilon floor, for any agent), under SpecEpsilon: around
\* every decay_epsilon call epsilon is at least epsilon_min and the call
\* does not raise epsilon.
C4_AnyAgent ==
    op = "decay_epsilon" => FlooredAndNotRaised

\* The constructor arguments under which the schedule is a decay towards a
\* floor: 0 <= eps_min <= eps_start and 0 <= eps_decay <= 1.
DecayingSchedule ==
    /\ 0 <= eps_min
    /\ eps_min <= eps_start
    /\ 0 <= eps_decay
    /\ eps_decay <= Scale

\* C4 as amended, under SpecEpsilon: for an agent constructed with
\* 0 <= eps_min <= eps_start and 0 <= eps_decay <= 1, epsilon is at least
\* epsilon_min before and after every decay_epsilon call, and no call
\* raises epsilon.
C4_EpsilonFloor ==
    (op = "decay_epsilon" /\ DecayingSchedule) => FlooredAndNotRaised

\* C4's case: decay_epsilon has lowered epsilon from eps_start to the
\* floor, and the product epsilon * epsilon_dec lies below the floor.
C4_Witness ==
    /\ op = "decay_epsilon"
    /\ DecayingSchedule
    /\ epsilon < eps_start
    /\ epsilon = epsilon_min
    /\ FMul(epsilon, epsilon_dec) < epsilon_min

\* The values select_action returns in its exploitation branch for the
\* parameters p, over the candidate lists.
GreedyChoices(p) ==
    [c \in ActionCandsAll \ {<<>>} |-> GreedyAction(p, 0, c)]

\* C5 (checkpoint round-trip), under Spec: right after save the checkpoint
\* holds the agent's live and target parameters, optimizer state, step
\* counter, epsilon, epsilon_min and epsilon_dec; right after a load of it,
\* into the saving agent or into a newly constructed one, these seven equal
\* the checkpoint's, and select_action's exploitation branch returns the
\* index it returned with the saved parameters.
C5_CheckpointRoundTrip ==
    (op \in {"save", "load"} /\ ret.kind = "none")
      => /\ checkpoint # <<>>
         /\ q_net = checkpoint[1].q_net_state
         /\ target_q_net = checkpoint[1].target_net_state
         /\ optimizer = checkpoint[1].optimizer_state
         /\ step_count = checkpoint[1].step_count
         /\ epsilon = checkpoint[1].epsilon
         /\ epsilon_min = checkpoint[1].epsilon_min
         /\ epsilon_dec = checkpoint[1].epsilon_dec
         /\ GreedyChoices(q_net) = GreedyChoices(checkpoint[1].q_net_state)

\* C5's case: a load into a newly constructed agent (its store is empty)
\* has restored a step counter and an epsilon that training and decay had
\* moved, and networks that differ from one another.
C5_Witness ==
    /\ op = "load"
    /\ ret.kind = "none"
    /\ buffer = <<>>
    /\ step_count = 3
    /\ epsilon < eps_start
    /\ q_net # target_q_net

\* The embedding the identifier id = (ctype, idx) names in group g.
EmbOf(g, id) ==
    LET j == CHOOSE j \in 1..Len(g) : g[j][1] = id[1]
    IN  g[j][2][id[2] + 1]

\* The identifiers of group g: (ctype, idx) with ctype a key of g and
\* 0 <= idx < number of candidates of that type.
Identifiers(g) ==
    UNION {{<<g[j][1], i>> : i \in 0..(Len(g[j][2]) - 1)} : j \in 1..Len(g)}

\* The number of candidates of group g.
Total(g) == Cardinality(Identifiers(g))

\* The place of identifier id in the flatten order of g: types in the
\* dict's order, then the index within the type.
FlattenRank(g, id) ==
    LET j == CHOOSE j \in 1..Len(g) : g[j][1] = id[1]
    IN  Cardinality({x \in Identifiers(g) :
            \E jx \in 1..Len(g) : g[jx][1] = x[1] /\ jx < j}) + id[2]

\* x ranks before y: a higher live value, or an equal value and an earlier
\* place in the flatten order.
RanksBefore(g, st, x, y) ==
    LET vx == QValue(q_net, st, EmbOf(g, x))
        vy == QValue(q_net, st, EmbOf(g, y))
    IN  vx > vy \/ (vx = vy /\ FlattenRank(g, x) < FlattenRank(g, y))

\* The slate sl holds pairwise distinct identifiers of g.
ValidSlate(g, sl) ==
    /\ \A i \in 1..Len(sl) : sl[i] \in Identifiers(g)
    /\ \A i, j \in 1..Len(sl) : i # j => sl[i] # sl[j]

\* C6 (slate ranking under exploitation), under SpecSelect: after
\* select_slate has taken the exploitation branch on a non-empty group with
\* k >= 0, the slate has min(k, total) identifiers, each ranks before the
\* next, and every identifier left out ranks after every one returned.
C6_SlateRanking ==
    (op = "select_slate" /\ ~args.explore /\ Total(args.cands) > 0 /\ args.k >= 0)
      => /\ ret.kind = "slate"
         /\ Len(ret.slate) = Min2(args.k, Total(args.cands))
         /\ ValidSlate(args.cands, ret.slate)
         /\ \A i, j \in 1..Len(ret.slate) :
               i < j => RanksBefore(args.cands, args.state, ret.slate[i], ret.slate[j])
         /\ \A x \in Identifiers(args.cands) \ Range(ret.slate) :
               \A i \in 1..Len(ret.slate) :
                  RanksBefore(args.cands, args.state, ret.slate[i], x)

\* C6's case: the values of A are [1, 3] and of B are [3, 1]; with k = 3 the
\* exploitation branch has returned (A,1), (B,0), (A,0): the two highest in
\* flatten order, then the first of the two lowest.
C6_Witness ==
    /\ op = "select_slate"
    /\ ~args.explore
    /\ q_net.w = 1
    /\ args.cands = << <<"A", <<1, 3>>>>, <<"B", <<3, 1>>>> >>
    /\ args.k = 3
    /\ ret.slate = << <<"A", 1>>, <<"B", 0>>, <<"A", 0>> >>

\* What C7 states of a select_slate call that has returned or raised.
SlateAsClaimed ==
    /\ ret.kind = "slate"
    /\ ValidSlate(args.cands, ret.slate)
    /\ IF Total(args.cands) = 0
       THEN ret.slate = <<>>
       ELSE Len(ret.slate) = Min2(args.k, Total(args.cands))

\* C7 as claimed (slate validity in both branches), under SpecSelect: for
\* every group and every k, select_slate returns without error exactly
\* min(k, total) pairwise distinct existing identifiers.
C7_AnyK ==
    op = "select_slate" => SlateAsClaimed

\* C7 as amended, under SpecSelect: the same for every group and every
\* k >= 0.
C7_SlateValidity ==
    (op = "select_slate" /\ args.k >= 0) => SlateAsClaimed

\* C7's case: the exploration branch has returned 2 of 4 candidates in an
\* order that is not the flatten order.
C7_Witness ==
    /\ op = "select_slate"
    /\ args.explore
    /\ args.k = 2
    /\ Total(args.cands) = 4
    /\ ret.slate = << <<"B", 1>>, <<"A", 0>> >>

\* C8 (greedy single action), under SpecSelect: on a non-empty candidate
\* list select_action returns an index within the list in both branches,
\* and in the exploitation branch the index of a candidate of maximal live
\* value with no candidate of that value before it.
C8_GreedyAction ==
    (op = "select_action" /\ args.cands # <<>>)
      => /\ ret.kind = "index"
         /\ ret.index \in 0..(Len(args.cands) - 1)
         /\ ~args.explore =>
              LET q(i) == QValue(q_net, args.state, args.cands[i + 1])
              IN  /\ \A j \in 0..(Len(args.cands) - 1) : q(j) <= q(ret.index)
                  /\ \A j \in 0..(ret.index - 1) : q(j) < q(ret.index)

\* C8's case: the maximal value is attained at positions 1 and 2, and the
\* exploitation branch has returned 1.
C8_Witness ==
    /\ op = "select_action"
    /\ ~args.explore
    /\ q_net.w = 1
    /\ args.cands = <<1, 3, 3>>
    /\ ret.index = 1

\* C9 (unsupported loss kind fails fast), under SpecTrain: with a loss_type
\* other than 'mse' and 'smooth_l1' every learn call ends in the
\* configuration error and the step counter never leaves 0.
C9_UnsupportedLossFailsFast ==
    loss_type \notin Supported
      => /\ step_count = 0
         /\ q_net = target_q_net
         /\ (op = "learn" => ret.kind = "ValueError")

\* C10 as claimed (target parameters change only by sync), under Spec: an
\* operation that changes an agent's target parameters is a learn-step on
\* the sync cadence, and it leaves them equal to the live parameters.
C10_OnlySync ==
    target_q_net # pre.target_q_net
      => (Learned /\ step_count % update_freq = 0 /\ target_q_net = q_net)

\* C10 as amended, under Spec: an operation that changes the target
\* parameters is either a learn-step on the sync cadence, which leaves them
\* equal to the live parameters, or a load, which leaves them equal to the
\* checkpoint's target parameters; a learn-step off the cadence changes the
\* live parameters alone.
C10_OnlySyncOrLoad ==
    target_q_net # pre.target_q_net
      => \/ (Learned /\ step_count % update_freq = 0 /\ target_q_net = q_net)
         \/ (op = "load" /\ checkpoint # <<>>
               /\ target_q_net = checkpoint[1].target_net_state)

\* C10's case: a load has replaced the target parameters by the
\* checkpoint's, which differ from the live ones, on an agent that has
\* stored experiences (the saving agent).
C10_Witness ==
    /\ op = "load"
    /\ ret.kind = "none"
    /\ buffer # <<>>
    /\ step_count = 1
    /\ target_q_net # pre.target_q_net
    /\ target_q_net # q_net

\* 0 <= epsilon_min <= epsilon <= 1
EpsilonInRange ==
    /\ 0 <= epsilon_min
    /\ epsilon_min <= epsilon
    /\ epsilon <= Scale

\* C11 as claimed (epsilon range, for any accepted constructor arguments),
\* under SpecRange: 0 <= epsilon_min <= epsilon <= 1 in every reachable
\* state.
C11_AnyAccepted == EpsilonInRange

\* Constructor arguments within the range the invariant needs:
\* 0 <= eps_min <= eps_start <= 1 and 0 <= eps_decay <= 1.
ScheduleInRange ==
    /\ 0 <= eps_min
    /\ eps_min <= eps_start
    /\ eps_start <= Scale
    /\ 0 <= eps_decay
    /\ eps_decay <= Scale

\* C11 as amended, under SpecRange: for an agent constructed with
\* 0 <= eps_min <= eps_start <= 1 and 0 <= eps_decay <= 1,
\* 0 <= epsilon_min <= epsilon <= 1 holds right after construction and
\* after every decay_epsilon, learn, store, selection, save and load call.
C11_EpsilonRange == ScheduleInRange => EpsilonInRange

\* C11's case: decay_epsilon had brought epsilon down to the floor and a
\* load has put the higher saved epsilon back, on an agent that has
\* trained.
C11_Witness ==
    /\ op = "load"
    /\ ret.kind = "none"
    /\ ScheduleInRange
    /\ step_count > 0
    /\ pre.epsilon = epsilon_min
    /\ epsilon > pre.epsilon

\* C12 (step counter discipline), under SpecTrain: no call lowers the step
\* counter, a learn-step that performs a parameter update raises it by
\* exactly one, nothing else changes it, and it equals the number of
\* parameter updates (optimizer steps) performed.
C12_StepCounterDiscipline ==
    /\ step_count >= pre.step_count
    /\ Learned => step_count = pre.step_count + 1
    /\ ~Learned => step_count = pre.step_count
    /\ step_count = optimizer

\* The required keys have been loaded from the checkpoint ck.
RequiredLoaded(ck) ==
    /\ q_net = ck.q_net_state
    /\ target_q_net = ck.target_net_state
    /\ optimizer = ck.optimizer_state

\* The optional key has been loaded from ck, or, being absent, has left
\* the attribute at fallback.
OptionalLoaded(ck, key, fallback) ==
    Attributes[key] = (IF key \in DOMAIN ck THEN ck[key] ELSE fallback)

\* C13 as claimed (lenient load), under SpecLenient: a load of a checkpoint
\* lacking any of step_count, epsilon, epsilon_min, epsilon_dec succeeds,
\* every present field takes the checkpoint's value and every absent one
\* keeps the value held in memory before the load.
C13_KeepsInMemory ==
    (op = "load" /\ checkpoint # <<>>)
      => /\ ret.kind = "none"
         /\ RequiredLoaded(checkpoint[1])
         /\ \A key \in OptionalKeys : OptionalLoaded(checkpoint[1], key, pre[key])

\* C13 as amended, under SpecLenient: the same, except that an absent
\* step_count sets the step counter to 0.
C13_LenientLoad ==
    (op = "load" /\ checkpoint # <<>>)
      => /\ ret.kind = "none"
         /\ RequiredLoaded(checkpoint[1])
         /\ OptionalLoaded(checkpoint[1], "step_count", 0)
         /\ \A key \in OptionalKeys \ {"step_count"} :
               OptionalLoaded(checkpoint[1], key, pre[key])

\* C13's case: an agent that has trained and decayed epsilon has loaded a
\* checkpoint without step_count and epsilon whose epsilon_min differs from
\* its own: the counter is 0, epsilon is kept, epsilon_min is the
\* checkpoint's.
C13_Witness ==
    /\ op = "load"
    /\ ret.kind = "none"
    /\ DOMAIN checkpoint[1] = RequiredKeys \cup {"epsilon_min", "epsilon_dec"}
    /\ pre.step_count > 0
    /\ step_count = 0
    /\ pre.epsilon < eps_start
    /\ epsilon = pre.epsilon
    /\ epsilon_min # pre.epsilon_min

\* The attributes a with the experience store left out of the comparison.
WithoutStore(a) == [a EXCEPT !.buffer = <<>>]

C15_SelectionReadOnly ==
    op \in {"select_action", "select_slate"}
      => /\ epsilon = pre.epsilon
         /\ epsilon_min = pre.epsilon_min
         /\ step_count = pre.step_count
         /\ q_net = pre.q_net
         /\ target_q_net = pre.target_q_net
         /\ optimizer = pre.optimizer
         /\ buffer = pre.buffer

\* C15's case: select_slate has taken the exploitation branch on an agent
\* that has stored, trained and decayed epsilon, and whose networks differ.
C15_Witness ==
    /\ op = "select_slate"
    /\ ~args.explore
    /\ ret.slate # <<>>
    /\ buffer # <<>>
    /\ step_count > 0
    /\ epsilon < eps_start
    /\ q_net # target_q_net

\* The responses the raw text of the last call parsed to.
ParsedResponses == PyItems(ParseJson(args.text).responses)

\* C16 (dwell-time consistency), under SpecHandler: in every entry that
\* extract_all_responses returns, parsed from the text, filled in as a
\* default or drawn by the fallback, dwell_time is an int that is not
\* negative, and it is 0 when clicked is false.
C16_DwellConsistency ==
    op = "extract_all_responses" =>
        \A i \in 1..Len(ret.responses) :
            /\ ret.responses[i].dwell_time.t = "int"
            /\ ret.responses[i].dwell_time.v >= 0
            /\ ret.responses[i].clicked.t = "bool"
            /\ ret.responses[i].clicked = Bool(FALSE) =>
                   ret.responses[i].dwell_time.v = 0

\* C16's case: a response parsed from the text says clicked false with a
\* positive dwell time, and its entry has dwell time 0.
C16_Witness ==
    /\ op = "extract_all_responses"
    /\ ret.source = "parsed"
    /\ \E i \in 1..Len(ret.responses) :
          /\ ParsedResponses[i].t = "dict"
          /\ ParsedResponses[i].clicked = Bool(FALSE)
          /\ Positive(ParsedResponses[i].dwell_time_seconds)
          /\ ret.responses[i] = Entry(ContentId(args.contents[i]), Bool(FALSE), Integer(0))

\* A content_id that is missing or invalid: absent, null, a string that
\* is no number, or a number that is the id of no content of the call.
MissingOrInvalid(content_id) ==
    \/ ~PyInt(content_id).ok
    \/ \A j \in 1..Len(args.contents) :
           ContentId(args.contents[j]) # PyInt(content_id).value

\* The text of the last call parsed to as many response objects as there
\* are contents, each with clicked and dwell values the handler can read,
\* for contents that all have an id.
AsManyResponseObjects ==
    /\ op = "extract_all_responses"
    /\ ParseJson(args.text).ok
    /\ Len(ParsedResponses) = Len(args.contents)
    /\ \A i \in 1..Len(ParsedResponses) :
          /\ ParsedResponses[i].t = "dict"
          /\ ParseSingleResponseForAll(ParsedResponses[i]).ok
          /\ ContentId(args.contents[i]).t = "int"

\* C17 (positional matching), under SpecHandler: when the text parses to as
\* many response objects as there are contents and one of them has a
\* missing or invalid content_id, the list returned is the parsed one, not
\* the fallback, and every response, that one included, gives its own
\* clicked and dwell values to the content at its position.
C17_PositionalMatching ==
    (/\ AsManyResponseObjects
     /\ \E i \in 1..Len(ParsedResponses) :
           MissingOrInvalid(ParsedResponses[i].content_id))
    => /\ ret.source = "parsed"
       /\ Len(ret.responses) = Len(args.contents)
       /\ \A i \in 1..Len(ret.responses) :
             ret.responses[i] =
                 Entry(ContentId(args.contents[i]),
                       ParseSingleResponseForAll(ParsedResponses[i]).clicked,
                       ParseSingleResponseForAll(ParsedResponses[i]).dwell_time)

\* C18 (one reaction per content), under SpecHandler: for every raw text
\* (JSON or not, with the right or a wrong number of responses, with
\* response objects or other values) and every list of contents,
\* extract_all_responses returns a list of exactly len(all_contents)
\* entries whose i-th entry carries the id of all_contents[i].
C18_OneReactionPerContent ==
    op = "extract_all_responses" =>
        /\ ret.kind = "responses"
        /\ Len(ret.responses) = Len(args.contents)
        /\ \A i \in 1..Len(args.contents) :
              ret.responses[i].content_id = ContentId(args.contents[i])

\* A learn call that went past the batch-size test and did what the loss
\* kind allows: a training step, or the error of an unsupported loss kind.
Trains ==
    /\ op = "learn"
    /\ ret.kind = (IF loss_type \in Supported THEN "loss" ELSE "ValueError")

\* C19 (collecting to training is one-way), under SpecCollect: the store
\* size never decreases; once a learn call has gone past the batch-size
\* test, no later learn call returns the no-op signal: each performs a
\* training step, or raises the error of the unsupported loss kind; and a
\* learn call made when at least batch_size records have been stored in a
\* store whose capacity is at least batch_size is such a call.
C19_OneWay ==
    /\ [][Len(buffer') >= Len(buffer)]_vars
    /\ [](Trains => [](op = "learn" => Trains))
    /\ [](op = "learn" /\ Len(pre.buffer) >= batch_size /\ capacity >= batch_size
             => Trains)

\* C19's case: a second training step on a store of capacity batch_size
\* = 2 that was full at the first one and has evicted a record since.
C19_Witness ==
    /\ Learned
    /\ batch_size = 2
    /\ capacity = 2
    /\ optimizer = 2
    /\ Len(buffer) = 2
    /\ buffer[1] # buffer[2]

\* C19 as stated: the store size never decreases; once a learn call has
\* performed a training step, every later learn call performs one; and a
\* learn call made when at least batch_size records have been stored in a
\* store whose capacity is at least batch_size performs a training step.
C19_CollectingToTrainingOneWay ==
    /\ [][Len(buffer') >= Len(buffer)]_vars
    /\ [](Learned => [](op = "learn" => Learned))
    /\ [](op = "learn" /\ Len(pre.buffer) >= batch_size /\ capacity >= batch_size
             => Learned)

\* A learn call that asked the store for a sample: every learn call but
\* the no-op.
Sampled == op = "learn" /\ ret.kind # "none"

\* C20 (sampling precondition), under Spec: every sample request that learn
\* makes asks for batch_size records of a store that held at least
\* batch_size when the call was made, and gets them: the store's error for
\* a sample larger than the store is never raised.
C20_SamplePrecondition ==
    Sampled =>
        /\ batch_size <= Len(pre.buffer)
        /\ Len(batch) = batch_size
        /\ \A i \in 1..Len(batch) : \E j \in 1..Len(pre.buffer) : batch[i] = pre.buffer[j]

\* C20's case: a sample of exactly as many records as the store holds,
\* batch_size = 2 of 2.
C20_Witness ==
    /\ Sampled
    /\ batch_size = 2
    /\ Len(pre.buffer) = 2
    /\ Len(batch) = 2

====
